---- MODULE Spec2Model ----
(***************************************************************************)
(* KORA clustering engine: src/src/clustering/kmeans_clustering.py.        *)
(*                                                                         *)
(* KMeansClustering wraps a scikit-learn KMeans estimator (self.model) and *)
(* keeps its own copies of the fitted attributes (labels_,                 *)
(* cluster_centers_, inertia_).  The estimator is modelled by what the     *)
(* calls at lines 46, 62 and 135-136 do: k-means++ seeding over sample     *)
(* indices, Lloyd iterations, nearest-centre labelling.                    *)
(*                                                                         *)
(* Numbers.  Samples are one-dimensional integer points.  A centre is the  *)
(* mean of at most MaxN (MaxFitRows) samples, so every centre is held      *)
(* multiplied by Scale, the lcm of 1..MaxN and 1..MaxFitRows, and every    *)
(* squared distance (hence every inertia) multiplied by Scale^2; all       *)
(* arithmetic is then exact integer arithmetic.                            *)
(* None is <<>> and a present value v is <<v>> (Python's Optional).        *)
(*                                                                         *)
(* Calls.  ret holds the call that has just ended (its arguments and what  *)
(* it returned or raised) until the caller takes it; sweep is the frame of *)
(* an optimal_k_elbow call.  fit_log is a history variable: "never" before *)
(* any fit call, "failed" while every fit call so far has raised, "ok"     *)
(* once a fit call has succeeded.  fit_seen is a history variable too: a   *)
(* fit result the caller has kept, with the matrix it was fitted on.       *)
(***************************************************************************)
EXTENDS Integers, Sequences, FiniteSets, TLC

VARIABLES n_clusters, max_iter, random_state, model, labels_, cluster_centers_, inertia_,
          fit_log, fit_seen, ret, sweep, lloyd, analysis, restarts, app, translator

engine == <<n_clusters, max_iter, model, labels_, cluster_centers_, inertia_>>
vars == <<n_clusters, max_iter, random_state, model, labels_, cluster_centers_, inertia_,
          fit_log, fit_seen, ret, sweep, lloyd, analysis, restarts, app, translator>>

\* Fit, FitPredict, Predict, Evaluate and Resume make up Spec; the sweep of
\* optimal_k_elbow, which builds its own estimators, is run under SpecElbow on
\* an unfitted engine and under SpecElbowEngine on an engine with any
\* random_state that may have been fitted.  SpecSeeded is the engine built
\* with an integer random_state; in Spec and SpecElbow random_state is None,
\* under which a fit can end with the outcome of any seeding, those of every
\* seed included.  SpecLloyd follows one run of the Lloyd iterations of a fit
\* (lloyd).  SpecOutliers is ClusterAnalyzer.find_outliers of
\* src/src/clustering/cluster_analyzer.py, a static method (analysis).

\* ---------------------------------------------------------------- bounds
\* rows of a sample matrix: 1..MaxN
MaxN == 2
\* sample coordinates: 0..MaxCoord
MaxCoord == 2
\* n_clusters given to the constructor, and the k values of a sweep: 0..MaxK
MaxK == 2
\* labels a caller passes to evaluate: 0..MaxLabel
MaxLabel == 1
\* length of the k_range a caller passes to optimal_k_elbow: 0..MaxSweep
MaxSweep == 2

\* max_iter given to the constructor: 1..MaxIter
MaxIter == 2
\* integer seeds given to the constructor as random_state: 0..MaxSeed
MaxSeed == 1
\* rows of the data given to find_outliers: 0..MaxRows
MaxRows == 3
\* entries of the data given to find_outliers: 0..MaxValue
MaxValue == 1
\* cluster ids in the labels given to find_outliers: 0..MaxClusterId
MaxClusterId == 1
\* threshold given to find_outliers: -1..MaxThreshold
MaxThreshold == 2
\* rows of the matrix of a fit followed restart by restart: 1..MaxFitRows
MaxFitRows == 3
\* its coordinates: 0..MaxFitCoord
MaxFitCoord == 3
\* restarts the estimator runs in one fit: 1..MaxRestarts
MaxRestarts == 2
\* rows of a file: MinDataRows (the smaller files) or MaxDataRows
MinDataRows == 3
MaxDataRows == 7

None == <<>>
Some(v) == <<v>>

RECURSIVE Gcd(_, _)
Gcd(a, b) == IF b = 0 THEN a ELSE Gcd(b, a % b)

RECURSIVE LcmUpTo(_)
LcmUpTo(n) == IF n <= 1 THEN 1 ELSE LET l == LcmUpTo(n - 1) IN (l * n) \div Gcd(l, n)

Scale == LcmUpTo(IF MaxN > MaxFitRows THEN MaxN ELSE MaxFitRows)

Coords == 0..MaxCoord

SeqsOfLen(S, n) == [1..n -> S]

SeqsUpTo(S, lo, hi) == UNION {SeqsOfLen(S, n) : n \in lo..hi}

\* the n x 1 sample matrices a caller can pass (n >= 1)
Matrices == SeqsUpTo(Coords, 1, MaxN)

\* label vectors a caller can pass to evaluate for a matrix of n rows
LabelVectors(n) == SeqsOfLen(0..MaxLabel, n)

RECURSIVE SumSeq(_)
SumSeq(s) == IF s = <<>> THEN 0 ELSE Head(s) + SumSeq(Tail(s))

Range(s) == {s[i] : i \in DOMAIN s}

\* ------------------------------------------------- scikit-learn KMeans
\* squared Euclidean distance of sample x to centre c (c scaled by Scale)
SqDist(x, c) == (x * Scale - c) * (x * Scale - c)

\* faulty variant of Nearest: the scan keeps the last minimum
NearestHighest(x, centers) ==
  CHOOSE j \in 0..(Len(centers) - 1) :
    /\ \A l \in 0..(Len(centers) - 1) : SqDist(x, centers[j + 1]) <= SqDist(x, centers[l + 1])
    /\ \A l \in (j + 1)..(Len(centers) - 1) : SqDist(x, centers[l + 1]) > SqDist(x, centers[j + 1])

\* index (0-based) of the nearest centre; the scan keeps the first minimum
Nearest(x, centers) ==
  CHOOSE j \in 0..(Len(centers) - 1) :
    /\ \A l \in 0..(Len(centers) - 1) : SqDist(x, centers[j + 1]) <= SqDist(x, centers[l + 1])
    /\ \A l \in 0..(j - 1) : SqDist(x, centers[l + 1]) > SqDist(x, centers[j + 1])

\* faulty variant of AssignLabels: every row is given to the first centre
AssignLabelsToFirst(X, centers) == [i \in DOMAIN X |-> 0]

\* E-step: the label of every row
AssignLabels(X, centers) == [i \in DOMAIN X |-> Nearest(X[i], centers)]

\* sum of squared distances of the rows to the centres their labels name
Inertia(X, centers, labels) ==
  SumSeq([i \in DOMAIN X |-> SqDist(X[i], centers[labels[i] + 1])])

Members(labels, j) == {i \in DOMAIN labels : labels[i] = j}

RECURSIVE SumOver(_, _)
SumOver(X, S) ==
  IF S = {} THEN 0 ELSE LET i == CHOOSE i \in S : TRUE IN X[i] + SumOver(X, S \ {i})

\* the sample farthest from the centre it is assigned to, among the rows not in
\* `taken` (np.argpartition order on equal distances: the highest row first)
Farthest(X, centers, labels, taken) ==
  CHOOSE i \in DOMAIN X \ taken :
    \A l \in DOMAIN X \ taken :
      LET di == SqDist(X[i], centers[labels[i] + 1])
          dl == SqDist(X[l], centers[labels[l] + 1])
      IN  di > dl \/ (di = dl /\ i >= l)

\* _relocate_empty_clusters_dense: acc = [sum, weight] per cluster; every empty
\* cluster takes the next farthest sample away from the cluster that holds it
RECURSIVE Relocate(_, _, _, _, _, _)
Relocate(X, centers, labels, acc, empty, taken) ==
  IF empty = {} \/ DOMAIN X \ taken = {} THEN acc
  ELSE LET new == CHOOSE j \in empty : \A l \in empty : j <= l
           far == Farthest(X, centers, labels, taken)
           old == labels[far]
           acc2 == [j \in DOMAIN acc |->
                      IF j = new + 1 THEN [sum |-> X[far], weight |-> 1]
                      ELSE IF j = old + 1
                           THEN [sum |-> acc[j].sum - X[far], weight |-> acc[j].weight - 1]
                           ELSE acc[j]]
       IN  Relocate(X, centers, labels, acc2, empty \ {new}, taken \cup {far})

\* faulty variant of UpdateCenters: the sums are not divided by the weights
UpdateCentersNotAveraged(X, centers, labels) ==
  [j \in DOMAIN centers |->
     IF Members(labels, j - 1) = {} THEN centers[j]
     ELSE SumOver(X, Members(labels, j - 1)) * Scale]

\* M-step: the mean of every cluster's members, after relocation.  The fit
\* works on X minus its column mean, so a cluster that relocation has left
\* without members, whose sum is then 0 there, sits at the mean of X
UpdateCenters(X, centers, labels) ==
  LET acc0 == [j \in DOMAIN centers |->
                 [sum |-> SumOver(X, Members(labels, j - 1)),
                  weight |-> Cardinality(Members(labels, j - 1))]]
      empty == {j \in 0..(Len(centers) - 1) : acc0[j + 1].weight = 0}
      acc == Relocate(X, centers, labels, acc0, empty, {})
  IN  [j \in DOMAIN centers |->
         IF acc[j].weight > 0
         THEN (acc[j].sum * Scale) \div acc[j].weight
         ELSE (SumSeq(X) * Scale) \div Len(X)]

\* _kmeans_single_lloyd from iteration `it` on: stop when the labels repeat
\* (strict convergence), when no centre moves, or after mi (max_iter) iterations;
\* without strict convergence the labels are recomputed against the last centres
RECURSIVE Lloyd(_, _, _, _, _)
Lloyd(X, centers, labels_old, it, mi) ==
  LET labels == AssignLabels(X, centers)
      centers_new == UpdateCenters(X, centers, labels)
      strict == (labels_old # None /\ labels = labels_old[1])
      final == IF strict THEN labels ELSE AssignLabels(X, centers_new)
  IN  IF strict \/ centers_new = centers \/ it >= mi
      THEN [cluster_centers_ |-> centers_new,
            labels_ |-> final,
            inertia_ |-> Inertia(X, centers_new, final)]
      ELSE Lloyd(X, centers_new, Some(labels), it + 1, mi)

\* squared distance of row i to the nearest of the rows already chosen
MinSqDist(X, chosen, i) ==
  LET ds == {SqDist(X[i], X[chosen[j]] * Scale) : j \in DOMAIN chosen}
  IN  CHOOSE d \in ds : \A e \in ds : d <= e

\* k-means++ seeding: the first centre is any row; each next one is a row drawn
\* with probability proportional to its squared distance to the nearest centre
\* chosen so far (row 0 when every such distance is zero)
RECURSIVE KMeansPlusPlus(_, _)
KMeansPlusPlus(X, k) ==
  IF k = 1 THEN {<<i>> : i \in DOMAIN X}
  ELSE UNION {LET far == {i \in DOMAIN X : MinSqDist(X, chosen, i) > 0}
              IN  {Append(chosen, i) : i \in (IF far = {} THEN {1} ELSE far)}
              : chosen \in KMeansPlusPlus(X, k - 1)}

\* KMeans(n_clusters = k).fit(X) raises: k < 1 is an invalid parameter, k > n
\* fails the check of the parameters against the input
KMeansFitError(X, k) == k < 1 \/ k > Len(X)

\* the fitted attributes KMeans(n_clusters = k, max_iter = mi).fit(X) can end
\* with, one per seeding (1 <= k <= n)
KMeansFit(X, k, mi) ==
  {Lloyd(X, [j \in 1..k |-> X[init[j]] * Scale], None, 1, mi) : init \in KMeansPlusPlus(X, k)}

\* KMeansFit of every matrix, k and max_iter in the bounds, computed once
FitTable ==
  UNION {{<<X, k, mi, KMeansFit(X, k, mi)>> : k \in 1..Len(X), mi \in 1..MaxIter}
         : X \in Matrices}

FitOutcomes(X, k, mi) ==
  (CHOOSE t \in FitTable : t[1] = X /\ t[2] = k /\ t[3] = mi)[4]

\* the j-th smallest element of a set of integers
Nth(S, j) == CHOOSE x \in S : Cardinality({y \in S : y < x}) = j - 1

Seeds == 0..MaxSeed

\* random_state: None (the default) or an integer seed
RandomStates == {None} \cup {Some(seed) : seed \in Seeds}

\* KMeans.fit with an integer random_state builds a new RandomState(seed) on
\* every call, so the j-th number it draws is a function of the seed and of j
\* alone.  The generator itself is stood for by a fixed arithmetic stream;
\* Draw is the j-th draw of a position in 1..n.
Draw(seed, j, n) == ((7 * seed + 3 * j) % n) + 1

\* the k-means++ seeding of KMeans(n_clusters = k, random_state = seed): as
\* KMeansPlusPlus, each choice made by the next draw
RECURSIVE SeededPlusPlus(_, _, _)
SeededPlusPlus(X, k, seed) ==
  IF k = 1 THEN <<Draw(seed, 1, Len(X))>>
  ELSE LET chosen == SeededPlusPlus(X, k - 1, seed)
           far == {i \in DOMAIN X : MinSqDist(X, chosen, i) > 0}
           cand == IF far = {} THEN {1} ELSE far
       IN  Append(chosen, Nth(cand, Draw(seed, k, Cardinality(cand))))

\* the fitted attributes of KMeans(n_clusters = k, max_iter = mi,
\* random_state = seed).fit(X)
SeededFit(X, k, mi, seed) ==
  LET init == SeededPlusPlus(X, k, seed)
  IN  Lloyd(X, [j \in 1..k |-> X[init[j]] * Scale], None, 1, mi)

\* SeededFit of every matrix, k, max_iter and seed in the bounds, computed once
SeededFitTable ==
  {<<X, {<<k, mi, seed, SeededFit(X, k, mi, seed)>> :
           k \in 1..Len(X), mi \in 1..MaxIter, seed \in Seeds}>>
   : X \in Matrices}

SeededOutcome(X, k, mi, seed) ==
  LET row == (CHOOSE t \in SeededFitTable : t[1] = X)[2]
  IN  (CHOOSE u \in row : u[1] = k /\ u[2] = mi /\ u[3] = seed)[4]

\* faulty variant of FitChoices: the seed is not passed on to the estimator
FitChoicesUnseeded(X, k, mi, rs) == FitOutcomes(X, k, mi)

\* what KMeans(n_clusters = k, max_iter = mi, random_state = rs).fit(X) can
\* end with: any seeding when rs is None, the seeding of the seed otherwise
FitChoices(X, k, mi, rs) ==
  IF rs = None THEN FitOutcomes(X, k, mi) ELSE {SeededOutcome(X, k, mi, rs[1])}

\* KMeans.predict on a fitted estimator m
KMeansPredict(m, X) == AssignLabels(X, m.cluster_centers_)

\* np.unique(labels)
Unique(labels) == Range(labels)

\* what silhouette_score, calinski_harabasz_score and davies_bouldin_score
\* raise on (X, labels): the lengths must agree and the number of distinct
\* labels must lie in 2..n-1; None when they compute a score
MetricError(X, labels) ==
  IF Len(X) # Len(labels)
  THEN Some([type |-> "ValueError", what |-> "inconsistent numbers of samples"])
  ELSE IF ~(1 < Cardinality(Unique(labels)) /\ Cardinality(Unique(labels)) < Len(X))
       THEN Some([type |-> "ValueError", what |-> "number of labels"])
       ELSE None

\* a score of the metrics library on (X, labels): its value is not modelled,
\* only that the entry is present in the report
Score(name, X, labels) == [metric |-> name]

ScoreNames == {"silhouette_score", "calinski_harabasz_score", "davies_bouldin_score"}

\* ------------------------------------------------------ KMeansClustering
Idle == [op |-> "idle"]

Return(op, X, labels, value) ==
  [op |-> op, X |-> X, labels |-> labels, status |-> "ok", value |-> value]

Raise(op, X, labels, error) ==
  [op |-> op, X |-> X, labels |-> labels, status |-> "error", value |-> error]

NoSweep == [pc |-> "idle"]

\* no run of the Lloyd iterations is being followed
NoLloyd == [pc |-> "none"]

\* no ClusterAnalyzer call has been made
NoAnalysis == [op |-> "none"]

NoRestarts == [pc |-> "none"]

\* ClusteringApp.__init__ (src/src/ui/app.py, lines 88-94): no data, no
\* model, no labels; elbow_k_range, elbow_curve and last_save_path are
\* attributes that do not exist yet (None here).  shown is what results_text
\* displays; clustered is history: a perform_clustering call has run to its
\* end.
NewApp ==
  [data |-> None, processed_data |-> None, kmeans |-> None, labels |-> None,
   elbow_k_range |-> None, elbow_curve |-> None, last_save_path |-> None,
   shown |-> "", clustered |-> FALSE]

\* ---------------------------------------------------------------------------
\* the translator (src/src/localization/translator.py) and the application's
\* language (src/src/ui/app.py, src/src/ui/localization.py)
\*
\* A translations file is known by its language code; the dictionary a file
\* holds is known by the code of the file it was read from, the empty
\* dictionary by NoTranslations.  translator.files is the content of the
\* translations directory, which the program only reads.
\* ---------------------------------------------------------------------------

Languages == {"en", "ru", "de"}

NoTranslations == ""

\* the last call made: changed tells a change_language call that passed both
\* of its guards
NoCall == [op |-> "none", language |-> None, changed |-> FALSE]

\* before the first call: no instance (Translator._instance, line 22), the
\* module's _translator unbound (line 129), no application window
NoTranslator ==
  [files |-> {}, instance |-> None, global_translator |-> FALSE, instances |-> 0,
   current_language |-> None, last |-> NoCall]


\* __init__: the estimator is built unfitted and the three attributes are None;
\* random_state has its default, None
Init ==
  /\ n_clusters \in 0..MaxK
  /\ max_iter \in 1..MaxIter
  /\ random_state = None
  /\ lloyd = NoLloyd
  /\ analysis = NoAnalysis
  /\ restarts = NoRestarts
  /\ app = NewApp
  /\ translator = NoTranslator
  /\ model = None
  /\ labels_ = None
  /\ cluster_centers_ = None
  /\ inertia_ = None
  /\ fit_log = "never"
  /\ fit_seen = None
  /\ ret = Idle
  /\ sweep = NoSweep

\* faulty variant of FitRaises: the attributes are cleared before line 46
FitRaisesAfterReset(op, X) ==
  /\ KMeansFitError(X, n_clusters)
  /\ labels_' = None
  /\ cluster_centers_' = None
  /\ inertia_' = None
  /\ fit_log' = IF fit_log = "ok" THEN "ok" ELSE "failed"
  /\ ret' = Raise(op, X, None, [type |-> "ValueError", what |-> "n_clusters", k |-> n_clusters])
  /\ UNCHANGED <<translator, app, restarts, fit_seen, lloyd, analysis, random_state, n_clusters, max_iter, model, sweep>>

\* fit, line 46 raises: lines 47-49 are not reached
FitRaises(op, X) ==
  /\ KMeansFitError(X, n_clusters)
  /\ fit_log' = IF fit_log = "ok" THEN "ok" ELSE "failed"
  /\ ret' = Raise(op, X, None, [type |-> "ValueError", what |-> "n_clusters", k |-> n_clusters])
  /\ UNCHANGED <<translator, app, restarts, fit_seen, lloyd, analysis, random_state, n_clusters, max_iter, model, labels_, cluster_centers_, inertia_, sweep>>

\* faulty variant of FitStores: line 48 only runs on the first fit
FitStoresKeepingCenters(op, X) ==
  /\ ~KMeansFitError(X, n_clusters)
  /\ \E r \in FitChoices(X, n_clusters, max_iter, random_state) :
       /\ model' = Some(r)
       /\ labels_' = Some(r.labels_)
       /\ cluster_centers_' = IF cluster_centers_ = None THEN Some(r.cluster_centers_)
                                                        ELSE cluster_centers_
       /\ inertia_' = Some(r.inertia_)
       /\ ret' = Return(op, X, None, IF op = "fit" THEN "self" ELSE r.labels_)
  /\ fit_log' = "ok"
  /\ UNCHANGED <<translator, app, restarts, fit_seen, lloyd, analysis, random_state, n_clusters, max_iter, sweep>>

\* fit, lines 46-50: the estimator is fitted and its attributes are copied
FitStores(op, X) ==
  /\ ~KMeansFitError(X, n_clusters)
  /\ \E r \in FitChoices(X, n_clusters, max_iter, random_state) :
       /\ model' = Some(r)
       /\ labels_' = Some(r.labels_)
       /\ cluster_centers_' = Some(r.cluster_centers_)
       /\ inertia_' = Some(r.inertia_)
       /\ ret' = Return(op, X, None, IF op = "fit" THEN "self" ELSE r.labels_)
  /\ fit_log' = "ok"
  /\ UNCHANGED <<translator, app, restarts, fit_seen, lloyd, analysis, random_state, n_clusters, max_iter, sweep>>

\* fit(X), lines 36-50
Fit(X) == ret = Idle /\ (FitRaises("fit", X) \/ FitStores("fit", X))

\* fit_predict(X), lines 64-75: fit, then the stored labels are returned
FitPredict(X) == ret = Idle /\ (FitRaises("fit_predict", X) \/ FitStores("fit_predict", X))

\* faulty variant of PredictResult: an unfitted estimator labels every row 0
PredictResultUnchecked(m, X) ==
  IF m = None
  THEN Return("predict", X, None, [i \in DOMAIN X |-> 0])
  ELSE Return("predict", X, None, KMeansPredict(m[1], X))

\* predict(X), line 62: the estimator's predict; it raises on an estimator that
\* holds no centres
PredictResult(m, X) ==
  IF m = None
  THEN Raise("predict", X, None, [type |-> "NotFittedError", what |-> "not fitted"])
  ELSE Return("predict", X, None, KMeansPredict(m[1], X))

Predict(X) ==
  /\ ret = Idle
  /\ ret' = PredictResult(model, X)
  /\ UNCHANGED <<translator, app, restarts, fit_seen, lloyd, analysis, random_state, n_clusters, max_iter, model, labels_, cluster_centers_, inertia_, fit_log, sweep>>

\* faulty variant of Report: the guard of line 102 is > 0
ReportAlwaysScored(inr, X, labels) ==
  IF Cardinality(Unique(labels)) > 0
  THEN IF MetricError(X, labels) # None
       THEN Raise("evaluate", X, None, MetricError(X, labels)[1])
       ELSE Return("evaluate", X, None,
                   [key \in {"inertia"} \cup ScoreNames |->
                      IF key = "inertia" THEN inr ELSE Score(key, X, labels)])
  ELSE Return("evaluate", X, None, [key \in {"inertia"} |-> inr])

\* evaluate, lines 96-113, on the labels being evaluated: the report holds the
\* stored inertia and, for more than one distinct label, the three scores; a
\* score that raises ends the call
Report(inr, X, labels) ==
  IF Cardinality(Unique(labels)) > 1
  THEN IF MetricError(X, labels) # None
       THEN Raise("evaluate", X, None, MetricError(X, labels)[1])
       ELSE Return("evaluate", X, None,
                   [key \in {"inertia"} \cup ScoreNames |->
                      IF key = "inertia" THEN inr ELSE Score(key, X, labels)])
  ELSE Return("evaluate", X, None, [key \in {"inertia"} |-> inr])

\* faulty variant of EvaluateResult: lines 91-92 are missing
EvaluateResultUnguarded(lab, inr, X, labels) ==
  [Report(inr, X, IF labels # None THEN labels[1]
                  ELSE IF lab # None THEN lab[1] ELSE <<>>)
     EXCEPT !.labels = labels]

\* evaluate(X, labels), lines 89-113, on an engine whose stored labels are lab
\* and whose stored inertia is inr
EvaluateResult(lab, inr, X, labels) ==
  IF labels = None /\ lab = None
  THEN Raise("evaluate", X, labels, [type |-> "ValueError", what |-> "not trained"])
  ELSE [Report(inr, X, IF labels = None THEN lab[1] ELSE labels[1])
          EXCEPT !.labels = labels]

Evaluate(X, labels) ==
  /\ ret = Idle
  /\ ret' = EvaluateResult(labels_, inertia_, X, labels)
  /\ UNCHANGED <<translator, app, restarts, fit_seen, lloyd, analysis, random_state, n_clusters, max_iter, model, labels_, cluster_centers_, inertia_, fit_log, sweep>>

\* the caller takes the result of the call that returned or raised
Resume ==
  /\ ret # Idle
  /\ ret' = Idle
  /\ UNCHANGED <<translator, app, restarts, fit_seen, lloyd, analysis, random_state, n_clusters, max_iter, model, labels_, cluster_centers_, inertia_, fit_log, sweep>>

\* the labels argument of evaluate: absent, or one label per row of X
LabelArgs(X) == {None} \cup {Some(l) : l \in LabelVectors(Len(X))}

\* calls are synchronous: the next call is made once the last one has ended
Next ==
  \/ ret = Idle /\ \E X \in Matrices : Fit(X)
  \/ ret = Idle /\ \E X \in Matrices : FitPredict(X)
  \/ ret = Idle /\ \E X \in Matrices : Predict(X)
  \/ ret = Idle /\ \E X \in Matrices : \E labels \in LabelArgs(X) : Evaluate(X, labels)
  \/ Resume

Spec == Init /\ [][Next]_vars

\* ------------------------------------------------------ optimal_k_elbow
\* The sweep is held as the frame of the call: its arguments (X, arg), its
\* locals (k_range, inertia_values, the position i of the for loop), the k of
\* every KMeans.fit call made so far (calls), and how it ended.

\* the k_range argument: absent, or a list of at most MaxSweep values of k
KRangeArgs == {None} \cup {Some(ks) : ks \in SeqsUpTo(0..MaxK, 0, MaxSweep)}

\* lines 129-132: the default range is 1..10; the result list starts empty
ElbowEnter(X, arg) ==
  [pc |-> "loop", X |-> X, arg |-> arg,
   k_range |-> IF arg = None THEN [j \in 1..10 |-> j] ELSE arg[1],
   i |-> 1, inertia_values |-> <<>>, calls |-> <<>>, value |-> None, error |-> None]

ElbowCall(X, arg) ==
  /\ sweep = NoSweep
  /\ sweep' = ElbowEnter(X, arg)
  /\ UNCHANGED <<translator, app, restarts, fit_seen, lloyd, analysis, random_state, n_clusters, max_iter, model, labels_, cluster_centers_, inertia_, fit_log, ret>>

\* faulty variant of ElbowAppend: the inertia is put at the front of the list
ElbowPrepend(sw, v) ==
  [sw EXCEPT !.inertia_values = <<v>> \o @,
             !.calls = Append(@, sw.k_range[sw.i]),
             !.i = @ + 1]

\* lines 136-137 when the fit of k_range[i] succeeds with inertia v
ElbowAppend(sw, v) ==
  [sw EXCEPT !.inertia_values = Append(@, v),
             !.calls = Append(@, sw.k_range[sw.i]),
             !.i = @ + 1]

\* faulty variant of ElbowAbort: the failing k is skipped and the loop goes on
ElbowSkip(sw) ==
  [sw EXCEPT !.calls = Append(@, sw.k_range[sw.i]),
             !.i = @ + 1]

\* line 136 when the fit of k_range[i] raises: the exception leaves the method
ElbowAbort(sw) ==
  [sw EXCEPT !.pc = "raised",
             !.calls = Append(@, sw.k_range[sw.i]),
             !.error = Some([type |-> "ValueError", what |-> "n_clusters",
                             k |-> sw.k_range[sw.i]])]

\* faulty variant of ElbowEstimator: the sweep fits the engine's own estimator
ElbowEstimatorReused(m, r) == Some(r)

\* line 135 builds a new KMeans for every k and line 136 fits that one: the
\* engine's estimator m is what it was, whatever the fit r of the new one
ElbowEstimator(m, r) == m

\* one pass of the for loop, lines 134-137: a fresh estimator for k_range[i]
ElbowIter ==
  /\ sweep.pc = "loop"
  /\ sweep.i <= Len(sweep.k_range)
  /\ LET k == sweep.k_range[sweep.i]
     IN  \/ /\ KMeansFitError(sweep.X, k)
            /\ sweep' = ElbowAbort(sweep)
            /\ model' = model
         \/ /\ ~KMeansFitError(sweep.X, k)
            /\ \E r \in FitChoices(sweep.X, k, max_iter, random_state) :
                 /\ sweep' = ElbowAppend(sweep, r.inertia_)
                 /\ model' = ElbowEstimator(model, r)
  /\ UNCHANGED <<translator, app, restarts, fit_seen, lloyd, analysis, random_state, n_clusters, max_iter, labels_, cluster_centers_, inertia_, fit_log, ret>>

\* line 139
ElbowResult(sw) == [sw EXCEPT !.pc = "returned", !.value = Some(<<sw.k_range, sw.inertia_values>>)]

ElbowReturn ==
  /\ sweep.pc = "loop"
  /\ sweep.i > Len(sweep.k_range)
  /\ sweep' = ElbowResult(sweep)
  /\ UNCHANGED <<translator, app, restarts, fit_seen, lloyd, analysis, random_state, n_clusters, max_iter, model, labels_, cluster_centers_, inertia_, fit_log, ret>>

\* the caller takes the result, or the exception, of the sweep
ElbowResume ==
  /\ sweep.pc \in {"returned", "raised"}
  /\ sweep' = NoSweep
  /\ UNCHANGED <<translator, app, restarts, fit_seen, lloyd, analysis, random_state, n_clusters, max_iter, model, labels_, cluster_centers_, inertia_, fit_log, ret>>

NextElbow ==
  \/ sweep = NoSweep /\ \E X \in Matrices : \E arg \in KRangeArgs : ElbowCall(X, arg)
  \/ ElbowIter
  \/ ElbowReturn
  \/ ElbowResume

SpecElbow == Init /\ [][NextElbow]_vars

\* __init__ of the engine that is swept: any max_iter and any random_state,
\* the two parameters line 135 reads; n_clusters, which the sweep never reads,
\* is 1, so that a fit call on any matrix fits the engine
InitSweepEngine ==
  /\ n_clusters = 1
  /\ max_iter \in 1..MaxIter
  /\ random_state \in RandomStates
  /\ model = None
  /\ labels_ = None
  /\ cluster_centers_ = None
  /\ inertia_ = None
  /\ fit_log = "never"
  /\ fit_seen = None
  /\ ret = Idle
  /\ sweep = NoSweep
  /\ lloyd = NoLloyd
  /\ analysis = NoAnalysis
  /\ restarts = NoRestarts
  /\ app = NewApp
  /\ translator = NoTranslator

\* the matrices a sweep is run on: any matrix on an engine that was given no
\* fit call, the matrix of the fit call otherwise
SweepMatrices == IF ret = Idle THEN Matrices ELSE {ret.X}

\* an engine with any random_state that is given at most one fit call and is
\* then swept, any number of times
NextElbowEngine ==
  \/ sweep = NoSweep /\ ret = Idle /\ \E X \in Matrices : Fit(X)
  \/ sweep = NoSweep /\ \E X \in SweepMatrices : \E arg \in KRangeArgs : ElbowCall(X, arg)
  \/ ElbowIter
  \/ ElbowReturn
  \/ ElbowResume

SpecElbowEngine == InitSweepEngine /\ [][NextElbowEngine]_vars

\* ------------------------------------------------- fit with a fixed seed
\* __init__ with an integer random_state (lines 15 and 26)
InitSeeded ==
  /\ n_clusters \in 0..MaxK
  /\ max_iter \in 1..MaxIter
  /\ random_state \in {Some(seed) : seed \in Seeds}
  /\ model = None
  /\ labels_ = None
  /\ cluster_centers_ = None
  /\ inertia_ = None
  /\ fit_log = "never"
  /\ fit_seen = None
  /\ ret = Idle
  /\ sweep = NoSweep
  /\ lloyd = NoLloyd
  /\ analysis = NoAnalysis
  /\ restarts = NoRestarts
  /\ app = NewApp
  /\ translator = NoTranslator

\* the caller takes the result of a fit call that returned and keeps the
\* fitted attributes (lines 47-49) with the matrix
FitKeep ==
  /\ ret # Idle
  /\ ret.op = "fit" /\ ret.status = "ok"
  /\ fit_seen = None
  /\ fit_seen' = Some([X |-> ret.X, cluster_centers_ |-> cluster_centers_[1],
                       labels_ |-> labels_[1], inertia_ |-> inertia_[1]])
  /\ ret' = Idle
  /\ UNCHANGED <<translator, app, restarts, lloyd, analysis, random_state, n_clusters, max_iter, model, labels_,
                 cluster_centers_, inertia_, fit_log, sweep>>

\* a second engine is built with the same n_clusters, max_iter and random_state
\* and takes the place of the first
NewEngine ==
  /\ ret = Idle
  /\ model # None
  /\ model' = None
  /\ labels_' = None
  /\ cluster_centers_' = None
  /\ inertia_' = None
  /\ fit_log' = "never"
  /\ UNCHANGED <<translator, app, restarts, lloyd, analysis, random_state, n_clusters, max_iter, fit_seen, ret, sweep>>

\* the matrices fit is called with: any matrix it accepts, but the kept
\* matrix again once the engine has been fitted on another matrix since
FitMatrices ==
  IF fit_seen = None \/ model = None \/ cluster_centers_ = Some(fit_seen[1].cluster_centers_)
  THEN {M \in Matrices : ~KMeansFitError(M, n_clusters)}
  ELSE {fit_seen[1].X}

\* fit calls that return, on one engine after the other, all with one seed
NextSeeded ==
  \/ ret = Idle /\ \E X \in FitMatrices : Fit(X)
  \/ FitKeep
  \/ Resume
  \/ NewEngine

SpecSeeded == InitSeeded /\ [][NextSeeded]_vars

\* ------------------------------------------- one run of the Lloyd iterations
\* The run of _kmeans_single_lloyd that KMeans.fit (line 46) makes for one
\* seeding, followed iteration by iteration: lloyd holds the matrix, the
\* centres the run started from (init), the current centres, the labels of
\* the iteration before, the iteration number, and in inertias the inertia of
\* every iteration so far, taken after its assignment step against the
\* centres the rows were assigned to.  A run that has stopped holds the
\* attributes the fit ends with.

\* the centres a run on X can start from: the rows of a k-means++ seeding
InitialCenters(X) ==
  {[j \in 1..n_clusters |-> X[init[j]] * Scale] : init \in KMeansPlusPlus(X, n_clusters)}

LloydStart(X, init) ==
  /\ lloyd = NoLloyd
  /\ ~KMeansFitError(X, n_clusters)
  /\ lloyd' = [pc |-> "iter", X |-> X, init |-> init, centers |-> init,
               labels_old |-> None, it |-> 1, inertias |-> <<>>,
               labels_ |-> None, inertia_ |-> None]
  /\ UNCHANGED <<translator, app, restarts, fit_seen, analysis, random_state, n_clusters, max_iter, model, labels_, cluster_centers_, inertia_, fit_log, ret, sweep>>

\* one iteration: assignment step, centre update, test of the stop conditions
LloydStep ==
  /\ lloyd.pc = "iter"
  /\ LET X == lloyd.X
         centers == lloyd.centers
         labels == AssignLabels(X, centers)
         centers_new == UpdateCenters(X, centers, labels)
         strict == (lloyd.labels_old # None /\ labels = lloyd.labels_old[1])
         final == IF strict THEN labels ELSE AssignLabels(X, centers_new)
         seen == Append(lloyd.inertias, Inertia(X, centers, labels))
     IN  lloyd' = IF strict \/ centers_new = centers \/ lloyd.it >= max_iter
                  THEN [lloyd EXCEPT !.pc = "done", !.centers = centers_new,
                                     !.inertias = seen, !.labels_ = Some(final),
                                     !.inertia_ = Some(Inertia(X, centers_new, final))]
                  ELSE [lloyd EXCEPT !.centers = centers_new, !.labels_old = Some(labels),
                                     !.it = @ + 1, !.inertias = seen]
  /\ UNCHANGED <<translator, app, restarts, fit_seen, analysis, random_state, n_clusters, max_iter, model, labels_, cluster_centers_, inertia_, fit_log, ret, sweep>>

\* the run is over and its attributes are taken
LloydEnd ==
  /\ lloyd.pc = "done"
  /\ lloyd' = NoLloyd
  /\ UNCHANGED <<translator, app, restarts, fit_seen, analysis, random_state, n_clusters, max_iter, model, labels_, cluster_centers_, inertia_, fit_log, ret, sweep>>

NextLloyd ==
  \/ lloyd = NoLloyd /\ \E X \in {M \in Matrices : ~KMeansFitError(M, n_clusters)} :
       \E init \in InitialCenters(X) : LloydStart(X, init)
  \/ LloydStep
  \/ LloydEnd

SpecLloyd == Init /\ [][NextLloyd]_vars

\* a run that has stopped holds what Lloyd computes from the same start
LloydStepsAgree ==
  lloyd.pc = "done" =>
    [cluster_centers_ |-> lloyd.centers, labels_ |-> lloyd.labels_[1],
     inertia_ |-> lloyd.inertia_[1]] = Lloyd(lloyd.X, lloyd.init, None, 1, max_iter)

\* ------------------------------------------------- the restarts of one fit
\* KMeans.fit (line 46) runs n_init restarts, each from its own k-means++
\* seeding, and keeps one of them.  The constructor call of lines 27-31
\* passes no n_init, so the number of restarts is the default of the
\* installed library (10, or 1 in the releases where the default "auto"
\* resolves to 1 for k-means++); a fit of the model ends after any number of
\* restarts in 1..MaxRestarts.  restarts holds the matrix, the number of
\* runs its restarts can make (runs), the number of restarts done, the
\* restart kept so far with its index (best, best_index), and as history the
\* lowest inertia any restart has reached with the index of the first restart
\* that reached it (lowest, first).
FitRowsMatrices == SeqsUpTo(0..MaxFitCoord, 1, MaxFitRows)

\* _is_same_clustering(labels1, labels2): rows that share a label in labels1
\* share one in labels2
IsSameClustering(labels1, labels2) ==
  \A i, j \in DOMAIN labels1 : labels1[i] = labels1[j] => labels2[i] = labels2[j]

\* the test under which the restart `new` replaces the restart kept so far
\* (None before the first restart)
Better(new, best) ==
  \/ best = None
  \/ new.inertia_ < best[1].inertia_ /\ ~IsSameClustering(new.labels_, best[1].labels_)

\* every restart is the Lloyd run of a k-means++ seeding of its own
RestartRuns(X) == KMeansFit(X, n_clusters, max_iter)

\* fit is entered: the parameters pass the checks, no restart has run yet
FitRestartsBegin(X) ==
  /\ restarts = NoRestarts
  /\ ~KMeansFitError(X, n_clusters)
  /\ restarts' = [pc |-> "run", X |-> X, runs |-> RestartRuns(X), done |-> 0,
                  best |-> None, best_index |-> None, lowest |-> None, first |-> None]
  /\ UNCHANGED <<translator, app, fit_seen, lloyd, analysis, random_state, n_clusters, max_iter, model,
                 labels_, cluster_centers_, inertia_, fit_log, ret, sweep>>

\* one more restart
FitRestart(run) ==
  /\ restarts.pc = "run"
  /\ restarts.done < MaxRestarts
  /\ LET better == Better(run, restarts.best)
         lower == restarts.lowest = None \/ run.inertia_ < restarts.lowest[1]
     IN  restarts' = [restarts EXCEPT
                        !.done = @ + 1,
                        !.best = IF better THEN Some(run) ELSE @,
                        !.best_index = IF better THEN Some(restarts.done) ELSE @,
                        !.lowest = IF lower THEN Some(run.inertia_) ELSE @,
                        !.first = IF lower THEN Some(restarts.done) ELSE @]
  /\ UNCHANGED <<translator, app, fit_seen, lloyd, analysis, random_state, n_clusters, max_iter, model,
                 labels_, cluster_centers_, inertia_, fit_log, ret, sweep>>

\* the last restart has run: the estimator keeps the best one and lines 47-49
\* copy its attributes
FitRestartsEnd ==
  /\ restarts.pc = "run"
  /\ restarts.done >= 1
  /\ restarts' = [restarts EXCEPT !.pc = "done"]
  /\ model' = restarts.best
  /\ labels_' = Some(restarts.best[1].labels_)
  /\ cluster_centers_' = Some(restarts.best[1].cluster_centers_)
  /\ inertia_' = Some(restarts.best[1].inertia_)
  /\ fit_log' = "ok"
  /\ UNCHANGED <<translator, app, fit_seen, lloyd, analysis, random_state, n_clusters, max_iter, ret, sweep>>

NextRestarts ==
  \/ restarts = NoRestarts /\ \E X \in FitRowsMatrices : FitRestartsBegin(X)
  \/ restarts.pc = "run" /\ \E run \in restarts.runs : FitRestart(run)
  \/ FitRestartsEnd

SpecRestarts == Init /\ [][NextRestarts]_vars

\* ------------------------------------------------ fit of a matrix of points
\* The estimator on samples with two coordinates: a sample and a centre are
\* pairs, the centres held multiplied by PointScale.  The operators are those
\* of the estimator above, written for pairs.
Blobs == <<<<0, 0>>, <<0, 1>>, <<1, 0>>, <<10, 10>>, <<10, 11>>, <<11, 10>>>>

PointScale == LcmUpTo(Len(Blobs))

\* max_iter when the constructor is given none
DefaultMaxIter == 300

ScalePoint(p) == <<p[1] * PointScale, p[2] * PointScale>>

PointSqDist(p, c) ==
  (p[1] * PointScale - c[1]) * (p[1] * PointScale - c[1])
    + (p[2] * PointScale - c[2]) * (p[2] * PointScale - c[2])

PointNearest(p, centers) ==
  CHOOSE j \in 0..(Len(centers) - 1) :
    /\ \A l \in 0..(Len(centers) - 1) : PointSqDist(p, centers[j + 1]) <= PointSqDist(p, centers[l + 1])
    /\ \A l \in 0..(j - 1) : PointSqDist(p, centers[l + 1]) > PointSqDist(p, centers[j + 1])

\* faulty variant of PointAssign: every sample is given to the first centre
PointAssignToFirst(P, centers) == [i \in DOMAIN P |-> 0]

PointAssign(P, centers) == [i \in DOMAIN P |-> PointNearest(P[i], centers)]

PointInertia(P, centers, labels) ==
  SumSeq([i \in DOMAIN P |-> PointSqDist(P[i], centers[labels[i] + 1])])

RECURSIVE PointSum(_, _)
PointSum(P, S) ==
  IF S = {} THEN <<0, 0>>
  ELSE LET i == CHOOSE i \in S : TRUE
           rest == PointSum(P, S \ {i})
       IN  <<P[i][1] + rest[1], P[i][2] + rest[2]>>

PointFarthest(P, centers, labels, taken) ==
  CHOOSE i \in DOMAIN P \ taken :
    \A l \in DOMAIN P \ taken :
      LET di == PointSqDist(P[i], centers[labels[i] + 1])
          dl == PointSqDist(P[l], centers[labels[l] + 1])
      IN  di > dl \/ (di = dl /\ i >= l)

RECURSIVE PointRelocate(_, _, _, _, _, _)
PointRelocate(P, centers, labels, acc, empty, taken) ==
  IF empty = {} \/ DOMAIN P \ taken = {} THEN acc
  ELSE LET new == CHOOSE j \in empty : \A l \in empty : j <= l
           far == PointFarthest(P, centers, labels, taken)
           old == labels[far]
           acc2 == [j \in DOMAIN acc |->
                      IF j = new + 1 THEN [sum |-> P[far], weight |-> 1]
                      ELSE IF j = old + 1
                           THEN [sum |-> <<acc[j].sum[1] - P[far][1], acc[j].sum[2] - P[far][2]>>,
                                 weight |-> acc[j].weight - 1]
                           ELSE acc[j]]
       IN  PointRelocate(P, centers, labels, acc2, empty \ {new}, taken \cup {far})

PointUpdateCenters(P, centers, labels) ==
  LET acc0 == [j \in DOMAIN centers |->
                 [sum |-> PointSum(P, Members(labels, j - 1)),
                  weight |-> Cardinality(Members(labels, j - 1))]]
      empty == {j \in 0..(Len(centers) - 1) : acc0[j + 1].weight = 0}
      acc == PointRelocate(P, centers, labels, acc0, empty, {})
      all == PointSum(P, DOMAIN P)
  IN  [j \in DOMAIN centers |->
         IF acc[j].weight > 0
         THEN <<(acc[j].sum[1] * PointScale) \div acc[j].weight,
                (acc[j].sum[2] * PointScale) \div acc[j].weight>>
         ELSE <<(all[1] * PointScale) \div Len(P), (all[2] * PointScale) \div Len(P)>>]

PointMinSqDist(P, chosen, i) ==
  LET ds == {PointSqDist(P[i], ScalePoint(P[chosen[j]])) : j \in DOMAIN chosen}
  IN  CHOOSE d \in ds : \A e \in ds : d <= e

RECURSIVE PointPlusPlus(_, _)
PointPlusPlus(P, k) ==
  IF k = 1 THEN {<<i>> : i \in DOMAIN P}
  ELSE UNION {LET far == {i \in DOMAIN P : PointMinSqDist(P, chosen, i) > 0}
              IN  {Append(chosen, i) : i \in (IF far = {} THEN {1} ELSE far)}
              : chosen \in PointPlusPlus(P, k - 1)}

\* KMeansClustering(n_clusters = 2, max_iter = ...) before fit_predict(Blobs)
InitBlobs ==
  /\ n_clusters = 2
  /\ max_iter \in (1..MaxIter) \cup {DefaultMaxIter}
  /\ random_state = None
  /\ lloyd = NoLloyd
  /\ analysis = NoAnalysis
  /\ restarts = NoRestarts
  /\ app = NewApp
  /\ translator = NoTranslator
  /\ model = None
  /\ labels_ = None
  /\ cluster_centers_ = None
  /\ inertia_ = None
  /\ fit_log = "never"
  /\ fit_seen = None
  /\ ret = Idle
  /\ sweep = NoSweep

\* fit_predict(Blobs) is called; the run followed is the restart that the fit
\* keeps, started from the rows `init` of its k-means++ seeding
BlobsStart(init) ==
  /\ lloyd = NoLloyd
  /\ lloyd' = [pc |-> "iter", X |-> Blobs, init |-> init,
               centers |-> [j \in 1..n_clusters |-> ScalePoint(Blobs[init[j]])],
               labels_old |-> None, it |-> 1, labels_ |-> None, inertia_ |-> None]
  /\ UNCHANGED <<translator, app, fit_seen, analysis, restarts, random_state, n_clusters, max_iter, model,
                 labels_, cluster_centers_, inertia_, fit_log, ret, sweep>>

\* one iteration: assignment step, centre update, test of the stop conditions
BlobsStep ==
  /\ lloyd.pc = "iter"
  /\ lloyd.X = Blobs
  /\ LET P == lloyd.X
         centers == lloyd.centers
         labels == PointAssign(P, centers)
         centers_new == PointUpdateCenters(P, centers, labels)
         strict == (lloyd.labels_old # None /\ labels = lloyd.labels_old[1])
         final == IF strict THEN labels ELSE PointAssign(P, centers_new)
     IN  lloyd' = IF strict \/ centers_new = centers \/ lloyd.it >= max_iter
                  THEN [lloyd EXCEPT !.pc = "done", !.centers = centers_new,
                                     !.labels_ = Some(final),
                                     !.inertia_ = Some(PointInertia(P, centers_new, final))]
                  ELSE [lloyd EXCEPT !.centers = centers_new, !.labels_old = Some(labels),
                                     !.it = @ + 1]
  /\ UNCHANGED <<translator, app, fit_seen, analysis, restarts, random_state, n_clusters, max_iter, model,
                 labels_, cluster_centers_, inertia_, fit_log, ret, sweep>>

\* lines 47-49 copy the attributes, fit_predict returns the labels (line 75)
BlobsReturn ==
  /\ lloyd.pc = "done"
  /\ lloyd.X = Blobs
  /\ lloyd' = [lloyd EXCEPT !.pc = "returned"]
  /\ model' = Some([cluster_centers_ |-> lloyd.centers, labels_ |-> lloyd.labels_[1],
                    inertia_ |-> lloyd.inertia_[1]])
  /\ labels_' = lloyd.labels_
  /\ cluster_centers_' = Some(lloyd.centers)
  /\ inertia_' = lloyd.inertia_
  /\ fit_log' = "ok"
  /\ ret' = Return("fit_predict", Blobs, None, lloyd.labels_[1])
  /\ UNCHANGED <<translator, app, fit_seen, analysis, restarts, random_state, n_clusters, max_iter, sweep>>

NextBlobs ==
  \/ \E init \in PointPlusPlus(Blobs, n_clusters) : BlobsStart(init)
  \/ BlobsStep
  \/ BlobsReturn

SpecBlobs == InitBlobs /\ [][NextBlobs]_vars

\* ------------------------------------------------------- the application
\* ClusteringApp (src/src/ui): load_data_from_file, preprocess_data,
\* perform_clustering, find_optimal_k and save_results, each a whole handler.
\* A dataset is known by the file it was read from and its number of rows;
\* what is computed from it is known by what it was computed from: the
\* processed matrix by its dataset, a label vector by the processed matrix and
\* the n_clusters of the fit, an elbow curve by the processed matrix and the
\* k_range.  The rows of a file are distinct samples.  reduced_data, the
\* silhouette values and the feature importances are left out: the handlers
\* keep their failures to themselves (lines 83-89, 92-116).

\* n_clusters_spin.setRange(2, 20)
MinSpin == 2
MaxSpin == 20
\* the cap of the sweep in perform_clustering
SweepCap == 15
\* the sweep of find_optimal_k: range(1, 11)
FindKStop == 11

Min(a, b) == IF a < b THEN a ELSE b

\* list(range(lo, hi))
RangeList(lo, hi) == [i \in 1..(hi - lo) |-> lo + i - 1]

DataRows == {MinDataRows, MaxDataRows}

\* the files the user can open
Files == {"a.csv", "b.csv"}

Datasets == {[file |-> f, rows |-> r] : f \in Files, r \in DataRows}

Paths == {"results.csv"}

\* preprocess_pipeline(data, ..., reduce_dims = False): scaling and imputing
\* keep the rows
Processed(d) == [of |-> d, rows |-> d.rows]

\* the labels of clustering_class(n_clusters = k, ...).fit_predict(X)
LabelsOf(X, k) == [of |-> X, n_clusters |-> k, len |-> X.rows]

\* the engine, known by its labels_ (None as the constructor leaves it)
Engine(labels) == [labels_ |-> labels]

\* KMeans.fit raises when there are fewer samples than clusters
FitFails(X, k) == k > X.rows

\* evaluate (line 57): the fit has used every index, so with n_clusters >= 2
\* the three scores are computed, and they raise when every sample has a
\* label of its own
EvaluateFails(X, k) == k > 1 /\ k = X.rows

\* optimal_k_elbow raises at the first k of k_range above the number of rows
SweepFails(X, k_range) == \E i \in DOMAIN k_range : FitFails(X, k_range[i])

\* lines 63-64: k_max = min(n_clusters + 5, 15); k_range = list(range(1, k_max))
SweepRange(k) == RangeList(1, Min(k + 5, SweepCap))

\* load_data_from_file: the dialog is cancelled, the file is read, or reading
\* it raises
LoadDataFromFile ==
  \/ UNCHANGED app
  \/ \E d \in Datasets : app' = [app EXCEPT !.data = Some(d), !.shown = "data_loaded"]
  \/ app' = [app EXCEPT !.shown = "error"]

\* preprocess_data
PreprocessData ==
  IF app.data = None THEN UNCHANGED app
  ELSE \/ app' = [app EXCEPT !.processed_data = Some(Processed(app.data[1])),
                             !.shown = "preprocessing_done"]
       \/ app' = [app EXCEPT !.shown = "error"]

\* lines 77-78: a sweep that raises is reported on the console and leaves
\* elbow_k_range and elbow_curve as they were
ElbowAfterFailure(old) == old

\* perform_clustering with n_clusters_spin at k
PerformClustering(k) ==
  IF app.processed_data = None THEN UNCHANGED app
  ELSE LET X == app.processed_data[1]
           fit == LabelsOf(X, k)
           k_range == SweepRange(k)
       IN  IF FitFails(X, k)
           THEN app' = [app EXCEPT !.kmeans = Some(Engine(None)),
                                   !.shown = "error"]
           ELSE IF EvaluateFails(X, k)
           THEN app' = [app EXCEPT !.kmeans = Some(Engine(Some(fit))),
                                   !.labels = Some(fit),
                                   !.shown = "error"]
           ELSE app' = [app EXCEPT
                          !.kmeans = Some(Engine(Some(fit))),
                          !.labels = Some(fit),
                          !.elbow_k_range = IF SweepFails(X, k_range)
                                            THEN ElbowAfterFailure(@) ELSE Some(k_range),
                          !.elbow_curve = IF SweepFails(X, k_range)
                                          THEN ElbowAfterFailure(@)
                                          ELSE Some([of |-> X, k_range |-> k_range]),
                          !.shown = "clustering_results",
                          !.clustered = TRUE]

\* find_optimal_k
FindOptimalK ==
  IF app.processed_data = None THEN UNCHANGED app
  ELSE IF SweepFails(app.processed_data[1], RangeList(1, FindKStop))
       THEN app' = [app EXCEPT !.shown = "error"]
       ELSE app' = [app EXCEPT !.shown = "optimal_k_results"]

\* line 54: a column of another length than the table raises
TableFails(d, labels) == labels.len # d.rows

\* save_results: a prerequisite is missing, the dialog is cancelled, the table
\* cannot be built, or the file is written
SaveResults ==
  IF app.data = None \/ app.labels = None THEN UNCHANGED app
  ELSE \/ UNCHANGED app
       \/ \E path \in Paths :
            IF TableFails(app.data[1], app.labels[1])
            THEN app' = [app EXCEPT !.shown = "error"]
            ELSE app' = [app EXCEPT
                           !.last_save_path = Some(path),
                           !.shown = "results_saved"]

NextApp ==
  \/ LoadDataFromFile /\ UNCHANGED <<translator, engine, random_state, fit_log, fit_seen, ret, sweep, lloyd, analysis, restarts>>
  \/ PreprocessData /\ UNCHANGED <<translator, engine, random_state, fit_log, fit_seen, ret, sweep, lloyd, analysis, restarts>>
  \/ \E k \in MinSpin..MaxSpin :
       PerformClustering(k) /\ UNCHANGED <<translator, engine, random_state, fit_log, fit_seen, ret, sweep, lloyd, analysis, restarts>>
  \/ FindOptimalK /\ UNCHANGED <<translator, engine, random_state, fit_log, fit_seen, ret, sweep, lloyd, analysis, restarts>>
  \/ SaveResults /\ UNCHANGED <<translator, engine, random_state, fit_log, fit_seen, ret, sweep, lloyd, analysis, restarts>>

\* the engine variables of the sections above stay as constructed: the
\* application's engine is app.kmeans
InitApp == Init /\ n_clusters = MaxK /\ max_iter = MaxIter

SpecApp == InitApp /\ [][NextApp]_vars

\* the rest of the translator module

\* _get_available_languages: the codes of the files, ['en'] when there is none
GetAvailableLanguages(files) == IF files = {} THEN {"en"} ELSE files

\* faulty variant of LoadTranslations: no fallback to English
LoadTranslationsOfAnyLanguage(t, files) ==
  [t EXCEPT !.translations = IF t.language \in files THEN t.language ELSE NoTranslations]

\* _load_translations: a language without a file falls back to English; a
\* file that cannot be opened leaves the empty dictionary
LoadTranslations(t, files) ==
  LET language == IF t.language \notin files /\ t.language # "en" THEN "en" ELSE t.language
  IN  [t EXCEPT !.language = language,
                !.translations = IF language \in files THEN language ELSE NoTranslations]

\* Translator.set_language
SetLanguage(t, language, files) ==
  LET l == IF language \notin t.available_languages THEN "en" ELSE language
  IN  IF l # t.language THEN LoadTranslations([t EXCEPT !.language = l], files) ELSE t

\* Translator.__new__: the first call builds the instance, every later call
\* returns it as it is
TranslatorNew(tr, language) ==
  IF tr.instance = None
  THEN [tr EXCEPT
          !.instance = Some(LoadTranslations(
                          [language |-> language, translations |-> NoTranslations,
                           available_languages |-> GetAvailableLanguages(tr.files)],
                          tr.files)),
          !.instances = @ + 1]
  ELSE tr

\* get_translator(language); language is None for a call without argument
GetTranslator(tr, language) ==
  IF ~tr.global_translator
  THEN [TranslatorNew(tr, IF language # None THEN language[1] ELSE "en")
          EXCEPT !.global_translator = TRUE]
  ELSE IF language # None
       THEN [tr EXCEPT !.instance = Some(SetLanguage(@[1], language[1], tr.files))]
       ELSE tr

\* the module's set_language
ModuleSetLanguage(tr, language) ==
  LET g == GetTranslator(tr, None)
  IN  [g EXCEPT !.instance = Some(SetLanguage(@[1], language, g.files))]

\* a caller constructs Translator(language)
TranslatorCall(language) ==
  translator' = [TranslatorNew(translator, language)
                   EXCEPT !.last = [op |-> "Translator", language |-> Some(language), changed |-> FALSE]]

\* a caller calls get_translator() or get_translator(language)
GetTranslatorCall(language) ==
  translator' = [GetTranslator(translator, language)
                   EXCEPT !.last = [op |-> "get_translator", language |-> language, changed |-> FALSE]]

\* a caller calls the module's set_language(language)
SetLanguageCall(language) ==
  translator' = [ModuleSetLanguage(translator, language)
                   EXCEPT !.last = [op |-> "set_language", language |-> Some(language), changed |-> FALSE]]

\* ClusteringApp.__init__, lines 64-76, with the translator main() passes
\* (get_translator()): current_language is the translator's language of
\* that moment
CreateApp ==
  /\ translator.current_language = None
  /\ LET g == GetTranslator(translator, None)
     IN  translator' = [g EXCEPT !.current_language = Some(g.instance[1].language),
                                 !.last = [op |-> "create_app", language |-> None, changed |-> FALSE]]

\* change_language, lines 264-291: the two early returns, then
\* current_language, set_language and the assignment to translator.language
ChangeLanguage(language) ==
  /\ translator.current_language # None
  /\ LET call == [op |-> "change_language", language |-> Some(language), changed |-> FALSE]
     IN  IF language \notin translator.instance[1].available_languages
         THEN translator' = [translator EXCEPT !.last = call]
         ELSE IF language = translator.current_language[1]
         THEN translator' = [translator EXCEPT !.last = call]
         ELSE LET s == ModuleSetLanguage(translator, language)
              IN  translator' = [s EXCEPT
                                   !.current_language = Some(language),
                                   !.instance = Some([@[1] EXCEPT !.language = language]),
                                   !.last = [call EXCEPT !.changed = TRUE]]

NextTranslator ==
  \/ \E l \in Languages :
       TranslatorCall(l) /\ UNCHANGED <<app, engine, random_state, fit_log, fit_seen, ret, sweep, lloyd, analysis, restarts>>
  \/ \E l \in {None} \cup {Some(c) : c \in Languages} :
       GetTranslatorCall(l) /\ UNCHANGED <<app, engine, random_state, fit_log, fit_seen, ret, sweep, lloyd, analysis, restarts>>
  \/ \E l \in Languages :
       SetLanguageCall(l) /\ UNCHANGED <<app, engine, random_state, fit_log, fit_seen, ret, sweep, lloyd, analysis, restarts>>
  \/ CreateApp /\ UNCHANGED <<app, engine, random_state, fit_log, fit_seen, ret, sweep, lloyd, analysis, restarts>>
  \/ \E l \in Languages :
       ChangeLanguage(l) /\ UNCHANGED <<app, engine, random_state, fit_log, fit_seen, ret, sweep, lloyd, analysis, restarts>>

\* any translations directory over Languages; the other variables stay as
\* constructed
InitTranslator ==
  /\ translator \in {[NoTranslator EXCEPT !.files = F] : F \in SUBSET Languages}
  /\ n_clusters = MaxK
  /\ max_iter = MaxIter
  /\ random_state = None
  /\ lloyd = NoLloyd
  /\ analysis = NoAnalysis
  /\ restarts = NoRestarts
  /\ app = NewApp
  /\ model = None
  /\ labels_ = None
  /\ cluster_centers_ = None
  /\ inertia_ = None
  /\ fit_log = "never"
  /\ fit_seen = None
  /\ ret = Idle
  /\ sweep = NoSweep

SpecTranslator == InitTranslator /\ [][NextTranslator]_vars

\* ------------------------------------------- ClusterAnalyzer.find_outliers
\* src/src/clustering/cluster_analyzer.py, lines 91-145.  data is an n x 1
\* matrix, labels a vector of n cluster ids; the indices returned are 0-based.
\* Means are held multiplied by AScale, so distances are too.

AScale == LcmUpTo(MaxRows)

\* threshold: float = 2.0
DefaultThreshold == 2

Abs(v) == IF v < 0 THEN -v ELSE v

\* the (data, labels) pairs a caller can pass
Partitions ==
  UNION {{<<d, l>> : d \in SeqsOfLen(0..MaxValue, n), l \in SeqsOfLen(0..MaxClusterId, n)}
         : n \in 0..MaxRows}

Methods == {"distance", "silhouette", "dbscan"}

\* the threshold argument: absent, or a number
ThresholdArgs == {None} \cup {Some(t) : t \in -1..MaxThreshold}

\* line 117: np.mean of the rows labelled c (times AScale)
Centroid(data, labels, c) ==
  (SumOver(data, Members(labels, c)) * AScale) \div Cardinality(Members(labels, c))

\* lines 121 and 126: np.linalg.norm(point - centroid) of row i (times AScale)
Distance(data, labels, i) == Abs(data[i] * AScale - Centroid(data, labels, labels[i]))

RECURSIVE SumOf(_, _)
SumOf(f, S) == IF S = {} THEN 0 ELSE LET i == CHOOSE i \in S : TRUE IN f[i] + SumOf(f, S \ {i})

\* line 127: np.std(distances) of the cluster of row i is
\* sqrt(mean(abs(d - mean(d)) ** 2)); with m members, this is m ** 3 times its
\* square (times AScale ** 2)
StdSquared(data, labels, i) ==
  LET C == Members(labels, labels[i])
      m == Cardinality(C)
      d == [j \in C |-> Distance(data, labels, j)]
      total == SumOf(d, C)
  IN  SumOf([j \in C |-> (m * d[j] - total) * (m * d[j] - total)], C)

\* faulty variant of Exceeds: the comparison of line 130 is not strict
ExceedsOrEquals(data, labels, i, t) ==
  LET m == Cardinality(Members(labels, labels[i]))
      d == Distance(data, labels, i)
      v == StdSquared(data, labels, i)
  IN  IF t >= 0 THEN d * d * m * m * m >= t * t * v
      ELSE TRUE

\* line 130: distance > threshold * std_distance.  Both sides are compared by
\* their squares when threshold >= 0; a negative threshold makes the right
\* side negative, or zero when the std is zero
Exceeds(data, labels, i, t) ==
  LET m == Cardinality(Members(labels, labels[i]))
      d == Distance(data, labels, i)
      v == StdSquared(data, labels, i)
  IN  IF t >= 0 THEN d * d * m * m * m > t * t * v
      ELSE d > 0 \/ v > 0

\* line 131: outliers.append(i); faulty variant: the index is put in front
AddOutlierFront(outliers, i) == <<i>> \o outliers

\* line 131, and the order of the comprehension of line 140
AddOutlier(outliers, i) == Append(outliers, i)

\* lines 120-131: the rows are visited in order, from row i on
RECURSIVE DistanceScan(_, _, _, _, _)
DistanceScan(data, labels, t, i, outliers) ==
  IF i > Len(data) THEN outliers
  ELSE DistanceScan(data, labels, t, i + 1,
                    IF Exceeds(data, labels, i, t) THEN AddOutlier(outliers, i - 1)
                                                   ELSE outliers)

\* mean distance of row i to the rows of S (times AScale), S not empty
MeanDistance(data, i, S) ==
  (SumOf([j \in S |-> Abs(data[i] - data[j])], S) * AScale) \div Cardinality(S)

\* sklearn silhouette_samples, row i, as a fraction num / den with den > 0:
\* (b - a) / max(a, b), where a is the mean distance to the other rows of its
\* cluster and b the least mean distance to the rows of another cluster; 0 for
\* the only row of a cluster and for 0 / 0 (nan_to_num)
SilhouetteSample(data, labels, i) ==
  LET own == Members(labels, labels[i]) \ {i}
      a == IF own = {} THEN 0 ELSE MeanDistance(data, i, own)
      bs == {MeanDistance(data, i, Members(labels, c)) : c \in Unique(labels) \ {labels[i]}}
      b == CHOOSE x \in bs : \A y \in bs : x <= y
      hi == IF a > b THEN a ELSE b
  IN  IF own = {} \/ hi = 0 THEN [num |-> 0, den |-> 1]
      ELSE [num |-> b - a, den |-> hi]

\* lines 86-89: zeros for at most one cluster, else silhouette_samples, which
\* raises unless the number of clusters lies in 2..n-1
GetSilhouetteValues(data, labels) ==
  IF Cardinality(Unique(labels)) <= 1
  THEN [status |-> "ok", value |-> [i \in DOMAIN data |-> [num |-> 0, den |-> 1]]]
  ELSE IF Cardinality(Unique(labels)) >= Len(data)
       THEN [status |-> "error",
             value |-> [type |-> "ValueError", what |-> "number of labels"]]
       ELSE [status |-> "ok",
             value |-> [i \in DOMAIN data |-> SilhouetteSample(data, labels, i)]]

\* faulty variant of Below: the comparison of line 140 is not strict
BelowOrEqual(s, t) == s.num <= t * s.den

\* line 140: s < threshold
Below(s, t) == s.num < t * s.den

\* line 140: [i for i, s in enumerate(silhouette_values) if s < threshold]
RECURSIVE SilhouetteScan(_, _, _, _)
SilhouetteScan(values, t, i, outliers) ==
  IF i > Len(values) THEN outliers
  ELSE SilhouetteScan(values, t, i + 1,
                      IF Below(values[i], t) THEN AddOutlier(outliers, i - 1)
                                             ELSE outliers)

\* faulty variant of InitialOutliers: the list of the last call is kept
InitialOutliersKept(last) ==
  IF last.op = "find_outliers" /\ last.status = "ok" THEN last.value ELSE <<>>

\* line 108: outliers = [], a new list on every call, whatever the call
\* before (last) returned
InitialOutliers(last) == <<>>

\* faulty variant of UnknownMethod: the method is ignored and the list returned
UnknownMethodIgnored(method, outliers) == [status |-> "ok", value |-> outliers]

\* lines 142-143: any other method name raises
UnknownMethod(method, outliers) ==
  [status |-> "error",
   value |-> [type |-> "ValueError", what |-> "Unknown outlier detection method",
              method |-> method]]

\* lines 108-145 with threshold t: what the call returns or raises
FindOutliersResult(last, data, labels, method, t) ==
  LET outliers == InitialOutliers(last)
  IN  IF method = "distance"
      THEN [status |-> "ok", value |-> DistanceScan(data, labels, t, 1, outliers)]
      ELSE IF method = "silhouette"
           THEN LET sv == GetSilhouetteValues(data, labels)
                IN  IF sv.status = "error" THEN sv
                    ELSE [status |-> "ok", value |-> SilhouetteScan(sv.value, t, 1, <<>>)]
           ELSE UnknownMethod(method, outliers)

\* faulty variant of DataAfter: the rows are centred in place
DataAfterCentred(data, labels, method) ==
  [i \in DOMAIN data |-> data[i] * AScale - Centroid(data, labels, labels[i])]

\* the caller's data array after the call: boolean indexing (lines 116, 123),
\* the subtractions (121, 126) and the metrics library all build new arrays
DataAfter(data, labels, method) == data

\* the caller's labels array after the call: only read (lines 115-123, 136)
LabelsAfter(data, labels, method) == labels

\* analysis holds the last find_outliers call: its arguments, what it returned
\* or raised, the two arrays as the caller finds them afterwards, and in prev
\* the outcome of the call before it when that call had the same arguments
FindOutliersRecord(last, data, labels, method, th, prev) ==
  LET r == FindOutliersResult(last, data, labels, method,
                              IF th = None THEN DefaultThreshold ELSE th[1])
  IN  [op |-> "find_outliers", data |-> data, labels |-> labels, method |-> method,
       threshold |-> th, status |-> r.status, value |-> r.value,
       data_after |-> DataAfter(data, labels, method),
       labels_after |-> LabelsAfter(data, labels, method),
       prev |-> prev]

\* a first call, on any partition
FindOutliersCall(data, labels, method, th) ==
  /\ analysis = NoAnalysis
  /\ analysis' = FindOutliersRecord(analysis, data, labels, method, th, None)
  /\ UNCHANGED <<translator, app, restarts, fit_seen, lloyd, random_state, n_clusters, max_iter, model, labels_, cluster_centers_, inertia_, fit_log, ret, sweep>>

\* the same call once more, on the arrays as the last call left them
FindOutliersAgain ==
  /\ analysis # NoAnalysis
  /\ analysis.prev = None
  /\ analysis' = FindOutliersRecord(analysis, analysis.data_after, analysis.labels_after,
                                    analysis.method, analysis.threshold,
                                    IF /\ analysis.data_after = analysis.data
                                       /\ analysis.labels_after = analysis.labels
                                    THEN Some([status |-> analysis.status,
                                               value |-> analysis.value])
                                    ELSE None)
  /\ UNCHANGED <<translator, app, restarts, fit_seen, lloyd, random_state, n_clusters, max_iter, model, labels_, cluster_centers_, inertia_, fit_log, ret, sweep>>

\* the caller drops the arrays and the result
AnalysisDone ==
  /\ analysis # NoAnalysis
  /\ analysis' = NoAnalysis
  /\ UNCHANGED <<translator, app, restarts, fit_seen, lloyd, random_state, n_clusters, max_iter, model, labels_, cluster_centers_, inertia_, fit_log, ret, sweep>>

\* find_outliers is a static method: the engine takes no part and stands by
\* as it was built
InitAnalyzer == Init /\ n_clusters = MaxK /\ max_iter = MaxIter

NextOutliers ==
  \/ analysis = NoAnalysis /\ \E p \in Partitions : \E method \in Methods :
       \E th \in ThresholdArgs : FindOutliersCall(p[1], p[2], method, th)
  \/ FindOutliersAgain
  \/ AnalysisDone

SpecOutliers == InitAnalyzer /\ [][NextOutliers]_vars

\* ================================================================ claims
IsFitCall(r) == r.op \in {"fit", "fit_predict"}

\* the labels an evaluate call that has ended was evaluating
HasEvaluatedLabels == ret.op = "evaluate" /\ (ret.labels # None \/ labels_ # None)

EvaluatedLabels == IF ret.labels # None THEN ret.labels[1] ELSE labels_[1]

\* C1: evaluate without labels raises "not trained" and returns no report on an
\* engine on which no fit has succeeded; after a successful fit it evaluates the
\* stored labels and never raises "not trained"
C1_EvaluateNeedsFit ==
  (ret.op = "evaluate" /\ ret.labels = None) =>
    IF fit_log # "ok"
    THEN ret.status = "error" /\ ret.value.what = "not trained"
    ELSE /\ ret.status = "error" =>
              /\ MetricError(ret.X, labels_[1]) # None
              /\ ret.value = MetricError(ret.X, labels_[1])[1]
         /\ ret.status = "ok" =>
              /\ MetricError(ret.X, labels_[1]) = None \/ Cardinality(Unique(labels_[1])) = 1
              /\ ("silhouette_score" \in DOMAIN ret.value) = (Cardinality(Unique(labels_[1])) > 1)

C1_Witness ==
  ret.op = "evaluate" /\ ret.labels = None /\ fit_log = "failed" /\ ret.status = "error"

\* C2: predict raises in every state in which no fit has succeeded, a failed fit
\* included
C2_PredictNeedsFit ==
  (ret.op = "predict" /\ fit_log # "ok") => ret.status = "error"

C2_Witness == ret.op = "predict" /\ fit_log = "failed" /\ ret.status = "error"

C4_FitReplacesModelState ==
  /\ (labels_ # None \/ cluster_centers_ # None \/ inertia_ # None) =>
       /\ model # None
       /\ model[1] = [cluster_centers_ |-> cluster_centers_[1],
                      labels_ |-> labels_[1],
                      inertia_ |-> inertia_[1]]
       /\ Len(cluster_centers_[1]) = n_clusters
       /\ \A i \in DOMAIN labels_[1] : labels_[1][i] \in 0..(n_clusters - 1)
  /\ (IsFitCall(ret) /\ ret.status = "ok") =>
       /\ model # None /\ model[1] \in FitOutcomes(ret.X, n_clusters, max_iter)
       /\ labels_ # None /\ Len(labels_[1]) = Len(ret.X)
       /\ ret.op = "fit_predict" => ret.value = labels_[1]

C4_Witness ==
  /\ IsFitCall(ret) /\ ret.status = "ok"
  /\ n_clusters = 2 /\ Cardinality(Unique(labels_[1])) = 2

\* C5: predict on a fitted engine changes none of the stored centroids, labels
\* and inertia, and returns for every row the lowest index among the stored
\* centroids at minimum distance
C5_PredictIsPure ==
  [][(ret = Idle /\ ret'.op = "predict") =>
       /\ <<model, cluster_centers_, labels_, inertia_>>'
            = <<model, cluster_centers_, labels_, inertia_>>
       /\ cluster_centers_ # None =>
            /\ ret'.status = "ok"
            /\ DOMAIN ret'.value = DOMAIN ret'.X
            /\ \A i \in DOMAIN ret'.X :
                 LET c == cluster_centers_[1]
                     j == ret'.value[i] + 1
                 IN  /\ j \in DOMAIN c
                     /\ \A l \in DOMAIN c : SqDist(ret'.X[i], c[j]) <= SqDist(ret'.X[i], c[l])
                     /\ \A l \in 1..(j - 1) : SqDist(ret'.X[i], c[l]) > SqDist(ret'.X[i], c[j])]_vars

C5_Witness ==
  /\ ret.op = "predict" /\ ret.status = "ok"
  /\ \E i \in DOMAIN ret.X :
       LET c == cluster_centers_[1]
       IN  \E j, l \in DOMAIN c :
             /\ c[j] # c[l]
             /\ SqDist(ret.X[i], c[j]) = SqDist(ret.X[i], c[l])
             /\ \A m \in DOMAIN c : SqDist(ret.X[i], c[j]) <= SqDist(ret.X[i], c[m])

\* C6: when the labels being evaluated hold one distinct value, evaluate returns
\* a report whose only entry is the inertia
C6_SingleClusterReport ==
  (HasEvaluatedLabels /\ Cardinality(Unique(EvaluatedLabels)) = 1) =>
    ret.status = "ok" /\ DOMAIN ret.value = {"inertia"}

C6_Witness ==
  /\ HasEvaluatedLabels /\ Cardinality(Unique(EvaluatedLabels)) = 1
  /\ Len(ret.X) = 2 /\ ret.status = "ok"

\* C7: when the labels being evaluated hold as many distinct values as there are
\* samples, evaluate returns a report without the silhouette and the dispersion
\* ratio
C7_AllSingletonsReport ==
  (HasEvaluatedLabels /\ Len(EvaluatedLabels) = Len(ret.X)
     /\ Cardinality(Unique(EvaluatedLabels)) = Len(ret.X)) =>
    /\ ret.status = "ok"
    /\ "silhouette_score" \notin DOMAIN ret.value
    /\ "calinski_harabasz_score" \notin DOMAIN ret.value

\* sum of the squared distances of the rows of X to the mean of the rows that
\* share their label (scaled by Scale^2)
WithinSS(X, labels) ==
  SumSeq([i \in DOMAIN X |->
            LET S == Members(labels, labels[i])
            IN  SqDist(X[i], (SumOver(X, S) * Scale) \div Cardinality(S))])

\* C8: the inertia of the report is the within-cluster sum of squares of the
\* matrix under the labels being evaluated, a number >= 0
C8_ReportedInertia ==
  (HasEvaluatedLabels /\ Len(EvaluatedLabels) = Len(ret.X) /\ ret.status = "ok") =>
    /\ ret.value["inertia"] = Some(WithinSS(ret.X, EvaluatedLabels))
    /\ ret.value["inertia"][1] >= 0

\* C9: a sweep that returns gives back the caller's k sequence as passed and an
\* inertia sequence of the same length whose i-th entry is the inertia of a fit
\* with the i-th k, and nothing else
C9_SweepReturnsParallelSequences ==
  sweep.pc = "returned" =>
    /\ sweep.value # None /\ Len(sweep.value[1]) = 2
    /\ LET ks == sweep.value[1][1]
           vs == sweep.value[1][2]
       IN  /\ sweep.arg # None => ks = sweep.arg[1]
           /\ Len(vs) = Len(ks)
           /\ \A i \in DOMAIN ks :
                /\ ~KMeansFitError(sweep.X, ks[i])
                /\ vs[i] \in {r.inertia_ : r \in FitOutcomes(sweep.X, ks[i], max_iter)}

C9_Witness ==
  /\ sweep.pc = "returned"
  /\ Len(sweep.value[1][1]) = 2
  /\ sweep.value[1][1][1] # sweep.value[1][1][2]
  /\ sweep.value[1][2][1] # sweep.value[1][2][2]

\* position of the first k of ks whose fit on X raises (Len(ks) + 1 if none)
FirstFailing(X, ks) ==
  CHOOSE f \in 1..(Len(ks) + 1) :
    /\ \A i \in 1..(f - 1) : ~KMeansFitError(X, ks[i])
    /\ f <= Len(ks) => KMeansFitError(X, ks[f])

\* C10: a sweep in which the fit of some k raises ends with an error that names
\* the first such k, returns no sequences, fits no later k, and never returns
\* with that k left out
C10_SweepAbortsOnFailure ==
  LET f == FirstFailing(sweep.X, sweep.k_range)
  IN  /\ sweep.pc = "raised" =>
           /\ f <= Len(sweep.k_range)
           /\ sweep.value = None
           /\ sweep.error # None /\ sweep.error[1].k = sweep.k_range[f]
           /\ sweep.calls = SubSeq(sweep.k_range, 1, f)
           /\ Len(sweep.inertia_values) = f - 1
      /\ sweep.pc = "returned" => f = Len(sweep.k_range) + 1
      /\ sweep.pc = "loop" =>
           /\ sweep.i <= f
           /\ sweep.calls = SubSeq(sweep.k_range, 1, sweep.i - 1)

C10_Witness ==
  /\ sweep.pc = "raised"
  /\ Len(sweep.calls) > 1
  /\ Len(sweep.calls) < Len(sweep.k_range)

\* C11: a sweep called with an empty k sequence is rejected with an
\* invalid-parameter error: it never returns, and never returns empty sequences
C11_EmptySweepRejected ==
  (sweep # NoSweep /\ sweep.arg = Some(<<>>)) =>
    /\ sweep.pc # "returned"
    /\ sweep.value = None

IsOutlierCall == analysis.op = "find_outliers"

\* the threshold a find_outliers call works with
UsedThreshold == IF analysis.threshold = None THEN 2 ELSE analysis.threshold[1]

\* C13: find_outliers with a method name other than 'distance' or 'silhouette'
\* raises, on every input, the empty one included, and returns no list
C13_UnknownMethodRaises ==
  (IsOutlierCall /\ analysis.method \notin {"distance", "silhouette"}) =>
    /\ analysis.status = "error"
    /\ analysis.value.type = "ValueError"
    /\ analysis.value.method = analysis.method

C13_Witness ==
  /\ IsOutlierCall
  /\ analysis.method = "dbscan"
  /\ analysis.data = <<>>
  /\ analysis.status = "error"

\* C14: the list find_outliers returns is strictly ascending and each of its
\* elements is an index of a row, in 0..n-1
C14_IndicesAscending ==
  (IsOutlierCall /\ analysis.status = "ok") =>
    \A j \in DOMAIN analysis.value :
      /\ analysis.value[j] \in 0..(Len(analysis.data) - 1)
      /\ j > 1 => analysis.value[j - 1] < analysis.value[j]

C14_Witness ==
  /\ IsOutlierCall
  /\ analysis.method = "distance"
  /\ analysis.status = "ok"
  /\ Len(analysis.value) >= 2
  /\ Len(analysis.value) < Len(analysis.data)

\* row i of the analysed data lies farther from the mean of its cluster than
\* t times the population standard deviation of the distances of the cluster's
\* m members to that mean.  With d[j] = |m * x[j] - sum| (m times the distance)
\* the variance is (m * sum(d^2) - sum(d)^2) / m^4.
FartherThanStd(i, t) ==
  LET C == Members(analysis.labels, analysis.labels[i])
      m == Cardinality(C)
      d == [j \in C |-> Abs(m * analysis.data[j] - SumOver(analysis.data, C))]
      var == m * SumOf([j \in C |-> d[j] * d[j]], C) - SumOf(d, C) * SumOf(d, C)
  IN  IF t >= 0 THEN d[i] * d[i] * m * m > t * t * var
      ELSE d[i] > 0 \/ var > 0

\* C15: with the distance method the call returns, and row i is in the result
\* exactly when its distance to the mean of its cluster is strictly greater
\* than threshold times the population standard deviation of the cluster's
\* distances; an absent threshold is 2
C15_DistanceRule ==
  (IsOutlierCall /\ analysis.method = "distance") =>
    /\ analysis.status = "ok"
    /\ \A i \in DOMAIN analysis.data :
         (i - 1) \in Range(analysis.value) <=> FartherThanStd(i, UsedThreshold)

C15_Witness ==
  /\ IsOutlierCall
  /\ analysis.method = "distance"
  /\ analysis.threshold = None
  /\ analysis.value # <<>>
  /\ Len(analysis.value) < Len(analysis.data)

\* C16: with the silhouette method a call that returns flags row i exactly
\* when its silhouette score is strictly below the threshold; labels naming a
\* single cluster give no error and scores of zero, so that no row is flagged
\* for a threshold <= 0 and every row is flagged for a threshold > 0
C16_SilhouetteRule ==
  (IsOutlierCall /\ analysis.method = "silhouette") =>
    /\ analysis.status = "ok" =>
         \A i \in DOMAIN analysis.data :
           (i - 1) \in Range(analysis.value) <=>
             LET sc == IF Cardinality(Unique(analysis.labels)) = 1
                       THEN [num |-> 0, den |-> 1]
                       ELSE SilhouetteSample(analysis.data, analysis.labels, i)
             IN  sc.num < UsedThreshold * sc.den
    /\ Cardinality(Unique(analysis.labels)) = 1 =>
         /\ analysis.status = "ok"
         /\ UsedThreshold <= 0 => analysis.value = <<>>
         /\ UsedThreshold > 0 => analysis.value = [i \in DOMAIN analysis.data |-> i - 1]

C16_Witness ==
  /\ IsOutlierCall
  /\ analysis.method = "silhouette"
  /\ analysis.status = "ok"
  /\ Cardinality(Unique(analysis.labels)) = 2
  /\ UsedThreshold = 0
  /\ Len(analysis.value) = 1

TwoBlobs(labels) ==
  /\ labels[1] = labels[2] /\ labels[2] = labels[3]
  /\ labels[4] = labels[5] /\ labels[5] = labels[6]
  /\ labels[1] # labels[4]

\* 4/3 + 4/3, multiplied by PointScale^2
BlobsInertia == (8 * PointScale * PointScale) \div 3

\* C23 as stated: whatever the seeding (and max_iter), fit_predict of the six
\* points with k = 2 returns the two blobs, with inertia 4/3 + 4/3
C23_BlobsAnyMaxIter ==
  lloyd.pc = "returned" =>
    /\ TwoBlobs(ret.value)
    /\ labels_ = Some(ret.value)
    /\ inertia_ = Some(BlobsInertia)

\* C23: with max_iter >= 2, whatever the seeding, fit_predict of the six points
\* with k = 2 returns the two blobs, with inertia 4/3 + 4/3
C23_BlobsSeparated ==
  (lloyd.pc = "returned" /\ max_iter >= 2) =>
    /\ TwoBlobs(ret.value)
    /\ labels_ = Some(ret.value)
    /\ inertia_ = Some(BlobsInertia)

\* a fit seeded at two samples of one blob has returned
C23_Witness ==
  /\ lloyd.pc = "returned"
  /\ max_iter >= 2
  /\ lloyd.init[1] <= 3 /\ lloyd.init[2] <= 3
  /\ TwoBlobs(labels_[1])

\* C24: the sweep that perform_clustering runs covers every k from 1 to
\* min(n_clusters + 5, 15) inclusive
C24_SweepReachesKMax ==
  [][\A k \in MinSpin..MaxSpin :
       (PerformClustering(k) /\ app'.elbow_curve # app.elbow_curve) =>
         app'.elbow_k_range = Some(RangeList(1, Min(k + 5, SweepCap) + 1))]_vars

\* C25: whenever the application's labels are not None, its kmeans is a fitted
\* engine whose stored assignments are those labels
C25_LabelsHaveFittedEngine ==
  app.labels # None => (app.kmeans # None /\ app.kmeans[1].labels_ = app.labels)

\* C26: when perform_clustering completes and displays a clustering result,
\* the stored elbow data was computed in that call from the current
\* processed_data
C26_ElbowOfThisCall ==
  [][\A k \in MinSpin..MaxSpin :
       (PerformClustering(k) /\ app.processed_data # None
          /\ app'.shown = "clustering_results" /\ app'.elbow_curve # None) =>
         /\ app'.elbow_curve[1].of = app.processed_data[1]
         /\ app'.elbow_curve[1].k_range = SweepRange(k)
         /\ app'.elbow_k_range = Some(SweepRange(k))]_vars

\* C27: when save_results writes the table, the labels in it were computed
\* from the dataset held in data, one label per row
C27_SavedLabelsOfData ==
  [][(SaveResults /\ app.data # None /\ app.labels # None
        /\ app'.shown = "results_saved") =>
       /\ app.labels[1].of.of = app.data[1]
       /\ app.labels[1].len = app.data[1].rows]_vars

\* the guards of C28: a handler whose prerequisite is missing changes nothing
C28_GuardsHold ==
  [][/\ app.processed_data = None =>
          /\ \A k \in MinSpin..MaxSpin : PerformClustering(k) => app' = app
          /\ FindOptimalK => app' = app
     /\ (app.data = None \/ app.labels = None) => (SaveResults => app' = app)]_vars

\* C28: the guarded handlers change nothing when their prerequisite is
\* missing, so no file is written before a perform_clustering has succeeded
C28_NoFileBeforeClustering ==
  app.last_save_path # None => app.clustered

\* m times the distance of row j to the mean of the cluster C of m rows
SpreadDistance(C, j) ==
  Abs(Cardinality(C) * analysis.data[j] - SumOver(analysis.data, C))

\* C29: with the distance method and a threshold >= 0 the sole member of a
\* singleton cluster is never flagged, and every member of a cluster whose
\* members all lie at one non-zero distance from the cluster mean is flagged
C29_DegenerateSpread ==
  (IsOutlierCall /\ analysis.method = "distance" /\ UsedThreshold >= 0) =>
    /\ analysis.status = "ok"
    /\ \A i \in DOMAIN analysis.data :
         LET C == Members(analysis.labels, analysis.labels[i])
         IN  /\ Cardinality(C) = 1 => (i - 1) \notin Range(analysis.value)
             /\ (SpreadDistance(C, i) > 0
                   /\ \A j \in C : SpreadDistance(C, j) = SpreadDistance(C, i))
                  => (i - 1) \in Range(analysis.value)

\* a call on a two-member cluster of distinct points and a singleton cluster,
\* with a threshold given
C29_Witness ==
  /\ IsOutlierCall
  /\ analysis.method = "distance"
  /\ analysis.threshold # None /\ analysis.threshold[1] >= 0
  /\ analysis.data = <<0, 1, 0>>
  /\ analysis.labels = <<0, 0, 1>>
  /\ analysis.value = <<0, 1>>

\* C30, the translator's own state: at most one Translator instance is ever
\* built; its language is a member of available_languages or 'en'; the
\* loaded dictionary is the one of the current language's file, or empty when
\* that file cannot be opened
C30_TranslatorState ==
  /\ translator.instances <= 1
  /\ translator.instance # None =>
       LET t == translator.instance[1]
       IN  /\ translator.instances = 1
           /\ t.language \in t.available_languages \cup {"en"}
           /\ t.translations = (IF t.language \in translator.files THEN t.language ELSE NoTranslations)

\* C30, unsupported requests: a set_language(l) call with l outside
\* available_languages leaves the language 'en'
C30_UnsupportedIsEnglish ==
  [][\A l \in Languages :
       (SetLanguageCall(l) /\ l \notin GetAvailableLanguages(translator.files))
         => translator'.instance[1].language = "en"]_vars

\* C30, the application: after every change_language call current_language
\* equals the translator's language
C30_CurrentLanguageFollows ==
  [][(\E l \in Languages : ChangeLanguage(l))
       => translator'.current_language = Some(translator'.instance[1].language)]_vars

\* C30, the application, for the calls that pass both guards of
\* change_language (lines 274-278)
C30_ChangedLanguageFollows ==
  [][\A l \in Languages :
       (/\ ChangeLanguage(l)
        /\ l \in translator.instance[1].available_languages
        /\ l # translator.current_language[1])
         => /\ translator'.current_language = Some(l)
            /\ translator'.instance[1].language = l
            /\ translator'.instance[1].translations = l]_vars

\* C30, the application: a change_language call never separates
\* current_language from the translator's language
C30_ChangeLanguageKeeps ==
  [][((\E l \in Languages : ChangeLanguage(l))
        /\ translator.current_language = Some(translator.instance[1].language))
       => translator'.current_language = Some(translator'.instance[1].language)]_vars

\* C30 as stated: the translator's state, the unsupported requests and the
\* application's language after every change_language call
C30_TranslatorInvariant ==
  /\ []C30_TranslatorState
  /\ C30_UnsupportedIsEnglish
  /\ C30_CurrentLanguageFollows

\* C30 as the code has it: the translator's state and the unsupported
\* requests as stated; current_language equals the translator's language
\* after every change_language call that passes both guards, and after a call
\* that returns at a guard if it did before the call
C30_TranslatorFollows ==
  /\ []C30_TranslatorState
  /\ C30_UnsupportedIsEnglish
  /\ C30_ChangedLanguageFollows
  /\ C30_ChangeLanguageKeeps

\* a change_language call has passed both guards and moved the translator,
\* which was made for another language, to the requested one
C30_Witness ==
  /\ translator.last.op = "change_language"
  /\ translator.last.changed
  /\ translator.current_language = translator.last.language
  /\ translator.instance[1].language = translator.last.language[1]
  /\ translator.instance[1].translations = translator.last.language[1]
  /\ translator.instance[1].language # "en"
====
